---- MODULE Spec2Model ----
(***************************************************************************)
(* Model of standings.py: the league-table / team-matches terminal app.    *)
(*                                                                         *)
(* State: the StandingsApp (standings, current_view), the two tables       *)
(* (StandingsTable.standings, MatchesTable.matches and its cursor row),    *)
(* the TeamView reactives (name, matches), the functools.cache of          *)
(* get_matches and the number of HTTP requests issued.                     *)
(*                                                                         *)
(* Row and cursor indices are 0-based as in the code; TLA+ sequences are   *)
(* 1-based, so standings[index] of the code is standings[index + 1] here.  *)
(***************************************************************************)
EXTENDS Integers, Sequences, FiniteSets, TLC

VARIABLES
  phase,            \* "new" -> "constructed" -> "running" | "crashed"
  error,            \* name of the exception that ended the app, "" if none
  standings,        \* StandingsApp.standings
  standings_table,  \* StandingsTable.standings (the rendered rows)
  standings_fetches,\* number of GETs issued by get_standings
  current_view,     \* StandingsApp.current_view reactive
  table_display,    \* StandingsTable.display
  team_view_display,\* TeamView.display
  name,             \* TeamView.name reactive
  matches,          \* TeamView.matches reactive
  matches_table,    \* MatchesTable: [matches |-> ..., cursor_row |-> ...]
  cache,            \* functools.cache of get_matches: Team -> list of Match
  fetches,          \* number of GETs issued by get_matches, per team id (URL)
  returned,         \* value returned by the last direct call of get_matches
  event,            \* the last event handled: [op, index, raised, fetched]
  queue,            \* keys observed and not yet handled, oldest first
  in_flight         \* standings indices whose matches request is outstanding

vars == <<phase, error, standings, standings_table, standings_fetches,
          current_view, table_display, team_view_display, name, matches,
          matches_table, cache, fetches, returned, event, queue, in_flight>>

appVars == <<phase, error, standings, standings_table, standings_fetches,
             current_view, table_display, team_view_display, name, matches,
             matches_table>>

\* The pending input and the outstanding requests.
ioVars == <<queue, in_flight>>

-----------------------------------------------------------------------------
(* Bounds *)

\* Longest match list a fetch returns.
MaxMatches == 3

\* Number of matches requests the direct callers of get_matches may issue.
MaxFetches == 3

\* Number of keys that may wait to be handled.
MaxQueue == 1

-----------------------------------------------------------------------------
(* Domain model *)

\* Team: frozen dataclass, so it is hashable and compared by all its fields.
\* name stands for the display fields (name, short_name, tla, crest).
Team(id, nm) == [id |-> id, name |-> nm]

TeamA == Team("57", "Arsenal")
TeamB == Team("64", "Liverpool")
\* The same team id reconstructed with another display name.
TeamA2 == Team("57", "Arsenal FC")

TeamIds == {"57", "64"}

Standing(position, team) == [position |-> position, team |-> team]

\* Match.status values; anything but FINISHED is an unplayed match.
Statuses == {"FINISHED", "SCHEDULED"}

\* The league has two teams, so every match is between them; the home side
\* alternates with the matchday.
Match(matchday, status) ==
  [matchday  |-> matchday,
   home_team |-> IF matchday % 2 = 1 THEN TeamA.name ELSE TeamB.name,
   away_team |-> IF matchday % 2 = 1 THEN TeamB.name ELSE TeamA.name,
   status    |-> status]

finished(match) == match.status = "FINISHED"

-----------------------------------------------------------------------------
(* Season data source: what the HTTP API may answer *)

\* Payloads of /teams/{id}/matches: the matchdays 1..n in order, any status.
MatchLists ==
  UNION { { [i \in 1..n |-> Match(i, st[i])] : st \in [1..n -> Statuses] }
          : n \in 0..MaxMatches }

\* A response to the matches request: raise_for_status() raises when ~ok.
MatchResponses ==
  {[ok |-> FALSE, matches |-> <<>>]} \cup {[ok |-> TRUE, matches |-> ms] : ms \in MatchLists}

\* Payloads of /competitions/PL/standings: rows ordered by position.
Tables ==
  { <<Standing(1, TeamA), Standing(2, TeamB)>>,
    <<Standing(1, TeamB), Standing(2, TeamA)>> }

StandingsResponses ==
  {[ok |-> FALSE, table |-> <<>>]} \cup {[ok |-> TRUE, table |-> t] : t \in Tables}

-----------------------------------------------------------------------------
(* get_matches with its functools.cache *)

\* get_matches without its @cache: every call issues a request and the
\* stored entry follows the latest answer.
get_matches_uncached(team, resp) ==
  LET issued == [fetches EXCEPT ![team.id] = @ + 1]
  IN IF resp.ok
     THEN [raised |-> FALSE, value |-> resp.matches,
           cache |-> (team :> resp.matches) @@ cache, fetches |-> issued]
     ELSE [raised |-> TRUE, value |-> <<>>, cache |-> cache, fetches |-> issued]

\* get_matches with a cache that also remembers a failed request, as an
\* empty list.
get_matches_negative(team, resp) ==
  IF team \in DOMAIN cache
  THEN [raised |-> FALSE, value |-> cache[team], cache |-> cache, fetches |-> fetches]
  ELSE LET issued == [fetches EXCEPT ![team.id] = @ + 1]
       IN IF resp.ok
          THEN [raised |-> FALSE, value |-> resp.matches,
                cache |-> (team :> resp.matches) @@ cache, fetches |-> issued]
          ELSE [raised |-> TRUE, value |-> <<>>,
                cache |-> (team :> <<>>) @@ cache, fetches |-> issued]

\* get_matches with a cache that looks entries up by team.id alone.
get_matches_by_id(team, resp) ==
  IF \E t \in DOMAIN cache : t.id = team.id
  THEN [raised |-> FALSE,
        value |-> cache[CHOOSE t \in DOMAIN cache : t.id = team.id],
        cache |-> cache, fetches |-> fetches]
  ELSE LET issued == [fetches EXCEPT ![team.id] = @ + 1]
       IN IF resp.ok
          THEN [raised |-> FALSE, value |-> resp.matches,
                cache |-> (team :> resp.matches) @@ cache, fetches |-> issued]
          ELSE [raised |-> TRUE, value |-> <<>>, cache |-> cache, fetches |-> issued]

\* The outcome of get_matches(team) when the server would answer resp:
\* a cache hit returns the stored list without a request; a miss issues one
\* request, and only a call that returns normally is stored.
get_matches(team, resp) ==
  IF team \in DOMAIN cache
  THEN [raised |-> FALSE, value |-> cache[team], cache |-> cache, fetches |-> fetches]
  ELSE LET issued == [fetches EXCEPT ![team.id] = @ + 1]
       IN IF resp.ok
          THEN [raised |-> FALSE, value |-> resp.matches,
                cache |-> (team :> resp.matches) @@ cache, fetches |-> issued]
          ELSE [raised |-> TRUE, value |-> <<>>, cache |-> cache, fetches |-> issued]

-----------------------------------------------------------------------------
(* MatchesTable *)

row_count(table) == 2 * Len(table.matches)

\* update_data whose clear() leaves the cursor where it was.
MatchesTable_update_data_keeps_cursor(table, ms) ==
  [matches |-> ms, cursor_row |-> table.cursor_row]

\* update_data: store the list, clear() (which puts the cursor back on row
\* 0) and add two rows per match.
MatchesTable_update_data(table, ms) == [matches |-> ms, cursor_row |-> 0]

\* scroll_to_unplayed: move the cursor to the home row of the first match
\* of the table that is not finished; leave it alone when there is none.
MatchesTable_scroll_to_unplayed(table) ==
  LET unplayed == {i \in 1..Len(table.matches) : ~finished(table.matches[i])}
  IN IF unplayed = {}
     THEN table
     ELSE LET idx == (CHOOSE i \in unplayed : \A j \in unplayed : i <= j) - 1
              row_idx == idx * 2
          IN IF row_idx < row_count(table)
             THEN [table EXCEPT !.cursor_row = row_idx]
             ELSE table

-----------------------------------------------------------------------------
(* TeamView *)

\* A textual reactive calls its watcher only when the assigned value
\* differs (!=) from the current one.
reactive_changed(old, new) == old # new

\* watch_matches
TeamView_watch_matches(table, ms) ==
  MatchesTable_scroll_to_unplayed(MatchesTable_update_data(table, ms))

\* The three lambdas handed to TeamView.filter, applied to a match.
apply_fn(filter_fn, m) ==
  CASE filter_fn = "m.finished"     -> finished(m)
    [] filter_fn = "not m.finished" -> ~finished(m)
    [] filter_fn = "True"           -> TRUE

\* [m for m in self.matches if filter_fn(m)]
RECURSIVE filtered_matches(_, _)
filtered_matches(ms, filter_fn) ==
  IF ms = <<>> THEN <<>>
  ELSE (IF apply_fn(filter_fn, Head(ms)) THEN <<Head(ms)>> ELSE <<>>)
       \o filtered_matches(Tail(ms), filter_fn)

\* TeamView.filter that filters the list the table shows (table.matches)
\* instead of self.matches.
TeamView_filter_visible(table, ms, filter_fn, scroll_to_unplayed) ==
  LET updated == MatchesTable_update_data(table, filtered_matches(table.matches, filter_fn))
  IN IF scroll_to_unplayed THEN MatchesTable_scroll_to_unplayed(updated) ELSE updated

\* TeamView.filter: filters self.matches (the full list) into the table.
TeamView_filter(table, ms, filter_fn, scroll_to_unplayed) ==
  LET updated == MatchesTable_update_data(table, filtered_matches(ms, filter_fn))
  IN IF scroll_to_unplayed THEN MatchesTable_scroll_to_unplayed(updated) ELSE updated

filter_to_played(table, ms) == TeamView_filter(table, ms, "m.finished", FALSE)
\* filter_to_unplayed with the lambda of filter_to_played.
filter_to_unplayed_copied(table, ms) == TeamView_filter(table, ms, "m.finished", FALSE)

filter_to_unplayed(table, ms) == TeamView_filter(table, ms, "not m.finished", FALSE)
\* show_all with the lambda of filter_to_unplayed.
show_all_copied(table, ms) == TeamView_filter(table, ms, "not m.finished", TRUE)

show_all(table, ms) == TeamView_filter(table, ms, "True", TRUE)

-----------------------------------------------------------------------------
(* StandingsApp *)

\* The record of an event: the handler, the row or team index it was given,
\* whether an exception left it and whether it issued a matches request.
Event(op, index, raised, fetched) ==
  [op |-> op, index |-> index, raised |-> raised, fetched |-> fetched]

Init ==
  /\ phase = "new"
  /\ error = ""
  /\ standings = <<>>
  /\ standings_table = <<>>
  /\ standings_fetches = 0
  /\ current_view = "standings"
  /\ table_display = TRUE
  /\ team_view_display = TRUE
  /\ name = ""
  /\ matches = <<>>
  /\ matches_table = [matches |-> <<>>, cursor_row |-> 0]
  /\ cache = <<>>
  /\ fetches = [id \in TeamIds |-> 0]
  /\ returned = <<>>
  /\ event = Event("none", -1, FALSE, FALSE)
  /\ queue = <<>>
  /\ in_flight = <<>>

\* An exception that leaves a handler ends the app.
Crash(exc) ==
  /\ phase' = "crashed"
  /\ error' = exc

\* StandingsApp.__init__: get_standings() issues one request; an HTTP error
\* propagates out of the constructor.
StandingsApp_init(resp) ==
  /\ phase = "new"
  /\ standings_fetches' = standings_fetches + 1
  /\ IF resp.ok
     THEN /\ standings' = resp.table
          /\ phase' = "constructed"
          /\ UNCHANGED error
     ELSE /\ Crash("HTTPError")
          /\ UNCHANGED standings
  /\ event' = Event("init", -1, ~resp.ok, FALSE)
  /\ UNCHANGED <<standings_table, current_view, table_display, team_view_display,
                 name, matches, matches_table, cache, fetches, returned>>

\* watch_current_view
watch_current_view(view) ==
  IF view = "standings"
  THEN table_display' = TRUE /\ team_view_display' = FALSE
  ELSE table_display' = FALSE /\ team_view_display' = TRUE

\* on_mount that renders the standings sorted by team name (Arsenal before
\* Liverpool).
on_mount_sorted ==
  /\ phase = "constructed"
  /\ phase' = "running"
  /\ standings_table' =
       IF Len(standings) = 2 /\ standings[1].team = TeamB /\ standings[2].team = TeamA
       THEN <<standings[2], standings[1]>>
       ELSE standings
  /\ watch_current_view(current_view)
  /\ matches_table' = TeamView_watch_matches(matches_table, matches)
  /\ event' = Event("mount", -1, FALSE, FALSE)
  /\ UNCHANGED <<error, standings, standings_fetches, current_view, name, matches,
                 cache, fetches, returned>>

\* on_mount, followed by the initial calls of the watchers.
on_mount ==
  /\ phase = "constructed"
  /\ phase' = "running"
  /\ standings_table' = standings
  /\ watch_current_view(current_view)
  /\ matches_table' = TeamView_watch_matches(matches_table, matches)
  /\ event' = Event("mount", -1, FALSE, FALSE)
  /\ UNCHANGED <<error, standings, standings_fetches, current_view, name, matches,
                 cache, fetches, returned>>

\* on_data_table_row_selected with current_view set first, before the
\* matches are fetched and the team view is filled.
on_data_table_row_selected_view_first(index, resp) ==
  /\ phase = "running"
  /\ current_view' = "matches"
  /\ IF reactive_changed(current_view, "matches")
     THEN watch_current_view("matches")
     ELSE UNCHANGED <<table_display, team_view_display>>
  /\ IF index >= Len(standings)
     THEN /\ Crash("IndexError")
          /\ event' = Event("select", index, TRUE, FALSE)
          /\ UNCHANGED <<standings, standings_table, standings_fetches, name, matches,
                         matches_table, cache, fetches, returned>>
     ELSE LET standing == standings[index + 1]
              got == get_matches(standing.team, resp)
          IN /\ cache' = got.cache
             /\ fetches' = got.fetches
             /\ event' = Event("select", index, got.raised, got.fetches # fetches)
             /\ IF got.raised
                THEN /\ Crash("HTTPError")
                     /\ UNCHANGED <<name, matches, matches_table>>
                ELSE /\ name' = standing.team.name
                     /\ matches' = got.value
                     /\ matches_table' =
                          IF reactive_changed(matches, got.value)
                          THEN TeamView_watch_matches(matches_table, got.value)
                          ELSE matches_table
                     /\ UNCHANGED <<phase, error>>
             /\ UNCHANGED <<standings, standings_table, standings_fetches, returned>>

\* on_data_table_row_selected that shows the team's name before it fetches
\* the matches.
on_data_table_row_selected_name_first(index, resp) ==
  /\ phase = "running"
  /\ IF index >= Len(standings)
     THEN /\ Crash("IndexError")
          /\ event' = Event("select", index, TRUE, FALSE)
          /\ UNCHANGED <<standings, standings_table, standings_fetches, current_view,
                         table_display, team_view_display, name, matches,
                         matches_table, cache, fetches, returned>>
     ELSE LET standing == standings[index + 1]
              got == get_matches(standing.team, resp)
          IN /\ name' = standing.team.name
             /\ cache' = got.cache
             /\ fetches' = got.fetches
             /\ event' = Event("select", index, got.raised, got.fetches # fetches)
             /\ IF got.raised
                THEN /\ Crash("HTTPError")
                     /\ UNCHANGED <<current_view, table_display, team_view_display,
                                    matches, matches_table>>
                ELSE /\ matches' = got.value
                     /\ matches_table' =
                          IF reactive_changed(matches, got.value)
                          THEN TeamView_watch_matches(matches_table, got.value)
                          ELSE matches_table
                     /\ current_view' = "matches"
                     /\ IF reactive_changed(current_view, "matches")
                        THEN watch_current_view("matches")
                        ELSE UNCHANGED <<table_display, team_view_display>>
                     /\ UNCHANGED <<phase, error>>
             /\ UNCHANGED <<standings, standings_table, standings_fetches, returned>>

\* on_data_table_row_selected for the row at `index` of the sending table,
\* when a request issued now would be answered by resp.
on_data_table_row_selected(index, resp) ==
  /\ phase = "running"
  /\ IF index >= Len(standings)
     THEN \* self.standings[index] raises IndexError
          /\ Crash("IndexError")
          /\ event' = Event("select", index, TRUE, FALSE)
          /\ UNCHANGED <<standings, standings_table, standings_fetches, current_view,
                         table_display, team_view_display, name, matches,
                         matches_table, cache, fetches, returned>>
     ELSE LET standing == standings[index + 1]
              got == get_matches(standing.team, resp)
          IN /\ cache' = got.cache
             /\ fetches' = got.fetches
             /\ event' = Event("select", index, got.raised, got.fetches # fetches)
             /\ IF got.raised
                THEN /\ Crash("HTTPError")
                     /\ UNCHANGED <<current_view, table_display, team_view_display,
                                    name, matches, matches_table>>
                ELSE /\ name' = standing.team.name
                     /\ matches' = got.value
                     /\ matches_table' =
                          IF reactive_changed(matches, got.value)
                          THEN TeamView_watch_matches(matches_table, got.value)
                          ELSE matches_table
                     /\ current_view' = "matches"
                     /\ IF reactive_changed(current_view, "matches")
                        THEN watch_current_view("matches")
                        ELSE UNCHANGED <<table_display, team_view_display>>
                     /\ UNCHANGED <<phase, error>>
             /\ UNCHANGED <<standings, standings_table, standings_fetches, returned>>

\* The answers the server can give during get_matches(team): all of them
\* when the call issues a request, none to choose from when it does not.
Unanswered == [ok |-> FALSE, matches |-> <<>>]

AnswersFor(team) ==
  IF get_matches(team, Unanswered).fetches # fetches
  THEN MatchResponses
  ELSE {Unanswered}

Answers(index) ==
  IF index < Len(standings)
  THEN AnswersFor(standings[index + 1].team)
  ELSE {Unanswered}

\* The rows a RowSelected message can carry: a row of the table on display.
SelectableRows ==
  IF current_view = "standings"
  THEN 0 .. (Len(standings_table) - 1)
  ELSE IF row_count(matches_table) > 0 THEN {matches_table.cursor_row} ELSE {}

\* action_filter_to_played that stores the filtered list as the team view's
\* match list.
action_filter_to_played_narrowing ==
  /\ phase = "running"
  /\ matches_table' = filter_to_played(matches_table, matches)
  /\ matches' = matches_table'.matches
  /\ event' = Event("filter_to_played", -1, FALSE, FALSE)
  /\ UNCHANGED <<phase, error, standings, standings_table, standings_fetches,
                 current_view, table_display, team_view_display, name,
                 cache, fetches, returned>>

action_filter_to_played ==
  /\ phase = "running"
  /\ matches_table' = filter_to_played(matches_table, matches)
  /\ event' = Event("filter_to_played", -1, FALSE, FALSE)
  /\ UNCHANGED <<phase, error, standings, standings_table, standings_fetches,
                 current_view, table_display, team_view_display, name, matches,
                 cache, fetches, returned>>

action_filter_to_unplayed ==
  /\ phase = "running"
  /\ matches_table' = filter_to_unplayed(matches_table, matches)
  /\ event' = Event("filter_to_unplayed", -1, FALSE, FALSE)
  /\ UNCHANGED <<phase, error, standings, standings_table, standings_fetches,
                 current_view, table_display, team_view_display, name, matches,
                 cache, fetches, returned>>

action_show_all ==
  /\ phase = "running"
  /\ matches_table' = show_all(matches_table, matches)
  /\ event' = Event("show_all", -1, FALSE, FALSE)
  /\ UNCHANGED <<phase, error, standings, standings_table, standings_fetches,
                 current_view, table_display, team_view_display, name, matches,
                 cache, fetches, returned>>

\* action_show_standings that toggles between the two views.
action_show_standings_toggle ==
  /\ phase = "running"
  /\ current_view' = (IF current_view = "standings" THEN "matches" ELSE "standings")
  /\ watch_current_view(current_view')
  /\ event' = Event("show_standings", -1, FALSE, FALSE)
  /\ UNCHANGED <<phase, error, standings, standings_table, standings_fetches,
                 name, matches, matches_table, cache, fetches, returned>>

action_show_standings ==
  /\ phase = "running"
  /\ current_view' = "standings"
  /\ IF reactive_changed(current_view, "standings")
     THEN watch_current_view("standings")
     ELSE UNCHANGED <<table_display, team_view_display>>
  /\ event' = Event("show_standings", -1, FALSE, FALSE)
  /\ UNCHANGED <<phase, error, standings, standings_table, standings_fetches,
                 name, matches, matches_table, cache, fetches, returned>>

\* The j / k bindings of the matches table, which has the focus only while
\* the team view is displayed.
action_cursor_down ==
  /\ phase = "running"
  /\ current_view = "matches"
  /\ matches_table.cursor_row + 1 < row_count(matches_table)
  /\ matches_table' = [matches_table EXCEPT !.cursor_row = @ + 1]
  /\ event' = Event("cursor_down", -1, FALSE, FALSE)
  /\ UNCHANGED <<phase, error, standings, standings_table, standings_fetches,
                 current_view, table_display, team_view_display, name, matches,
                 cache, fetches, returned>>

action_cursor_up ==
  /\ phase = "running"
  /\ current_view = "matches"
  /\ matches_table.cursor_row > 0
  /\ matches_table' = [matches_table EXCEPT !.cursor_row = @ - 1]
  /\ event' = Event("cursor_up", -1, FALSE, FALSE)
  /\ UNCHANGED <<phase, error, standings, standings_table, standings_fetches,
                 current_view, table_display, team_view_display, name, matches,
                 cache, fetches, returned>>

\* Each event is handled as soon as it is observed: nothing waits.
Next ==
  \/ (\E resp \in StandingsResponses : StandingsApp_init(resp)) /\ UNCHANGED ioVars
  \/ on_mount /\ UNCHANGED ioVars
  \/ (\E index \in SelectableRows : \E resp \in Answers(index) :
        on_data_table_row_selected(index, resp)) /\ UNCHANGED ioVars
  \/ action_filter_to_played /\ UNCHANGED ioVars
  \/ action_filter_to_unplayed /\ UNCHANGED ioVars
  \/ action_show_all /\ UNCHANGED ioVars
  \/ action_show_standings /\ UNCHANGED ioVars
  \/ action_cursor_down /\ UNCHANGED ioVars
  \/ action_cursor_up /\ UNCHANGED ioVars

Spec == Init /\ [][Next]_vars

-----------------------------------------------------------------------------
(* get_matches called directly, as a test of the cache would call it *)

\* The teams the callers pass; TeamA and TeamA2 have the same id.
CacheTeams == <<TeamA, TeamA2, TeamB>>

TotalFetches == fetches["57"] + fetches["64"]

\* One call get_matches(CacheTeams[k]); the caller catches what it raises.
call_get_matches(k, resp) ==
  LET got == get_matches(CacheTeams[k], resp)
  IN /\ got.fetches # fetches => TotalFetches < MaxFetches
     /\ cache' = got.cache
     /\ fetches' = got.fetches
     /\ returned' = got.value
     /\ event' = Event("get_matches", k, got.raised, got.fetches # fetches)
     /\ UNCHANGED appVars
     /\ UNCHANGED ioVars

NextCache ==
  \E k \in 1..Len(CacheTeams) : \E resp \in AnswersFor(CacheTeams[k]) :
    call_get_matches(k, resp)

SpecCache == Init /\ [][NextCache]_vars

-----------------------------------------------------------------------------
(* The app with its input queue and the blocking matches request *)

\* The keys followed here: enter on the table with the focus, b (back) and
\* p (played filter).
Keys == {"enter", "b", "p"}

\* A handler that answers every key at once, as if the request ran in a
\* background worker.
idle_with_worker == TRUE

\* The message loop takes the next key only when no handler is running:
\* on_data_table_row_selected calls get_matches, and with it requests.get,
\* synchronously, so it holds the loop until the response is there.
idle == in_flight = <<>>

\* A key press is observed at any time, also during a request.
key_observed(key) ==
  /\ phase = "running"
  /\ Len(queue) < MaxQueue
  /\ queue' = Append(queue, key)
  /\ UNCHANGED <<appVars, cache, fetches, returned, event, in_flight>>

\* The oldest waiting key is taken and its handler runs. on_data_table_
\* row_selected stops at requests.get when get_matches has to ask the
\* server; until then it has assigned nothing.
handle_key ==
  /\ phase = "running"
  /\ idle
  /\ queue # <<>>
  /\ queue' = Tail(queue)
  /\ CASE Head(queue) = "b" -> action_show_standings /\ UNCHANGED in_flight
       [] Head(queue) = "p" -> action_filter_to_played /\ UNCHANGED in_flight
       [] Head(queue) = "enter" ->
            IF SelectableRows = {}
            THEN UNCHANGED <<appVars, cache, fetches, returned, event, in_flight>>
            ELSE \E index \in SelectableRows :
                   IF Answers(index) = {Unanswered}
                   THEN /\ on_data_table_row_selected(index, Unanswered)
                        /\ UNCHANGED in_flight
                   ELSE /\ in_flight' = Append(in_flight, index)
                        /\ UNCHANGED <<appVars, cache, fetches, returned, event>>

\* The server answers the oldest outstanding request and the handler that
\* waited for it runs to its end.
request_answered(resp) ==
  /\ in_flight # <<>>
  /\ on_data_table_row_selected(Head(in_flight), resp)
  /\ in_flight' = Tail(in_flight)
  /\ UNCHANGED queue

NextQueue ==
  \/ (\E resp \in StandingsResponses : StandingsApp_init(resp)) /\ UNCHANGED ioVars
  \/ on_mount /\ UNCHANGED ioVars
  \/ \E key \in Keys : key_observed(key)
  \/ handle_key
  \/ \E resp \in MatchResponses : request_answered(resp)

SpecQueue == Init /\ [][NextQueue]_vars

-----------------------------------------------------------------------------
(* Properties *)

\* The last event was a select that returned normally / issued a request
\* that failed.
SelectOk == event.op = "select" /\ ~event.raised
SelectFetchFailed == event.op = "select" /\ event.raised /\ event.fetched

\* The team of the standings row the last select was given.
SelectedTeam == standings[event.index + 1].team

\* The table shows the full match list of the team view (filter mode ALL).
ShowsAll == matches_table.matches = matches

\* C1: once a team's matches are in the cache, no step issues another
\* request for that team or changes its entry, and a select of that team
\* activates the stored list.
C1_FetchedOnce ==
  [][\A t \in DOMAIN cache :
       /\ fetches'[t.id] = fetches[t.id]
       /\ t \in DOMAIN cache'
       /\ cache'[t] = cache[t]
       /\ (SelectOk' /\ SelectedTeam' = t) => matches' = cache[t]]_vars

\* C1 witness: team A is selected again, from the cache, after team B was
\* fetched too.
C1_Witness ==
  /\ SelectOk /\ ~event.fetched
  /\ SelectedTeam = TeamA
  /\ matches = cache[TeamA]
  /\ Len(matches) = MaxMatches
  /\ TeamB \in DOMAIN cache
  /\ fetches = [id \in TeamIds |-> 1]

\* C2, as claimed: every successful select of a standings row leaves the
\* table showing the full match list of the selected team.
C2_SelectResetsFilter ==
  [][(current_view = "standings" /\ SelectOk') => ShowsAll']_vars

\* C3, as claimed: a successful select of a standings row that changes the
\* active team leaves the table showing the new team's full match list.
C3_TeamChangeResetsFilter ==
  [][(current_view = "standings" /\ SelectOk' /\ name # "" /\ name' # name)
       => ShowsAll']_vars

\* C4, as claimed: a select of a standings row whose matches request fails
\* leaves the app running on the standings view, the team view untouched.
C4_FailedFetchStaysOnStandings ==
  [][(current_view = "standings" /\ SelectFetchFailed') =>
       /\ phase' = "running"
       /\ error' = ""
       /\ UNCHANGED <<current_view, table_display, team_view_display, name, matches>>]_vars

\* The team the last direct call of get_matches was given.
CalledTeam == CacheTeams[event.index]

CallMade == event.op = "get_matches"

\* C5: a call of get_matches that raises stores nothing and changes no
\* entry; a call for a team without an entry (also after a failure) issues
\* one request and either raises or stores exactly the list it returns,
\* leaving the other entries alone.
C5_FailureNotCached ==
  [][CallMade' =>
       /\ event'.raised => (cache' = cache /\ CalledTeam' \notin DOMAIN cache')
       /\ CalledTeam' \notin DOMAIN cache =>
            /\ event'.fetched
            /\ fetches' = [fetches EXCEPT ![CalledTeam'.id] = @ + 1]
            /\ ~event'.raised => cache' = (CalledTeam' :> returned') @@ cache
       /\ \A t \in DOMAIN cache : t \in DOMAIN cache' /\ cache'[t] = cache[t]]_vars

\* C5 witness: the first request for team B failed, the retry fetched and
\* stored its matches, and team A's entry is still there.
C5_Witness ==
  /\ CallMade /\ CalledTeam = TeamB
  /\ event.fetched /\ ~event.raised
  /\ fetches["64"] = 2
  /\ TeamB \in DOMAIN cache /\ cache[TeamB] = returned /\ returned # <<>>
  /\ TeamA \in DOMAIN cache

\* The row the cursor-placement rule asks for: the home row of the first
\* unfinished match of the visible list, row 0 when there is none.
FirstUnplayedRow(visible) ==
  IF \E i \in 1..Len(visible) : ~finished(visible[i])
  THEN 2 * ((CHOOSE i \in 1..Len(visible) :
               /\ ~finished(visible[i])
               /\ \A j \in 1..(i - 1) : finished(visible[j])) - 1)
  ELSE 0

\* C6, as claimed: after a successful select of a standings row, after
\* show_all and after filter_to_unplayed the cursor is on the first
\* unfinished match of the visible list (row 0 if none); after
\* filter_to_played it is on row 0.
C6_CursorPlacement ==
  [][/\ ((current_view = "standings" /\ SelectOk')
           \/ event'.op \in {"show_all", "filter_to_unplayed"})
          => matches_table'.cursor_row = FirstUnplayedRow(matches_table'.matches)
     /\ event'.op = "filter_to_played" => matches_table'.cursor_row = 0]_vars

FilterOps == {"filter_to_played", "filter_to_unplayed", "show_all"}

\* C7: a filter action in the matches view issues no request and changes
\* nothing but the matches table (its visible list and cursor).
C7_FilterFrame ==
  [][(current_view = "matches" /\ event'.op \in FilterOps) =>
       /\ ~event'.fetched
       /\ UNCHANGED <<phase, error, standings, standings_table, standings_fetches,
                      current_view, table_display, team_view_display, name,
                      matches, cache, fetches>>]_vars

\* C7 witness: in the matches view the played filter has narrowed the
\* visible list of a team with played and unplayed matches.
C7_Witness ==
  /\ event.op = "filter_to_played"
  /\ current_view = "matches"
  /\ Len(matches) = MaxMatches
  /\ Len(matches_table.matches) \in 1..(Len(matches) - 1)

\* C8: back ends on the standings view with the standings table shown,
\* and when it starts there it changes nothing at all.
C8_Back ==
  [][event'.op = "show_standings" =>
       /\ current_view' = "standings"
       /\ table_display' /\ ~team_view_display'
       /\ UNCHANGED <<phase, error, standings, standings_table, standings_fetches,
                      name, matches, matches_table, cache, fetches>>
       /\ current_view = "standings" =>
            UNCHANGED <<current_view, table_display, team_view_display>>]_vars

\* C8 witness: back to the standings with a team loaded, the unplayed
\* filter on and both teams fetched.
C8_Witness ==
  /\ event.op = "show_standings"
  /\ current_view = "standings" /\ table_display /\ ~team_view_display
  /\ name = TeamB.name
  /\ matches_table.matches # matches
  /\ DOMAIN cache = {TeamA, TeamB}

\* C9: whenever the matches view is current (or the team view is shown by
\* the running app), the team view holds the name and the cached match
\* list of one standings row; before that the app is on the standings.
C9_MatchViewHasTeam ==
  /\ (current_view = "matches" \/ (phase = "running" /\ team_view_display)) =>
       \E i \in 1..Len(standings) :
         /\ name = standings[i].team.name
         /\ standings[i].team \in DOMAIN cache
         /\ matches = cache[standings[i].team]
  /\ phase = "running" => (team_view_display <=> current_view = "matches")
  /\ phase = "running" => (table_display <=> current_view = "standings")

\* C9 witness: the matches view of team A, entered by a select.
C9_Witness ==
  /\ phase = "running"
  /\ current_view = "matches" /\ team_view_display /\ ~table_display
  /\ name = TeamA.name
  /\ matches = cache[TeamA] /\ matches # <<>>
  /\ SelectOk /\ event.fetched

\* sub is ms with some elements left out, the rest in the same order.
IsSubsequence(sub, ms) ==
  \E f \in [1..Len(sub) -> 1..Len(ms)] :
    /\ \A i, j \in 1..Len(sub) : i < j => f[i] < f[j]
    /\ \A i \in 1..Len(sub) : sub[i] = ms[f[i]]

Elements(ms) == {ms[i] : i \in 1..Len(ms)}

\* What the played / unplayed filters put in the table for the loaded list.
PlayedOfLoaded == filter_to_played(matches_table, matches).matches
UnplayedOfLoaded == filter_to_unplayed(matches_table, matches).matches

AllOfLoaded == show_all(matches_table, matches).matches

EmptyResult ==
  /\ current_view = "matches"
  /\ \/ event.op = "filter_to_played" /\ \A i \in 1..Len(matches) : ~finished(matches[i])
     \/ event.op = "filter_to_unplayed" /\ \A i \in 1..Len(matches) : finished(matches[i])
     \/ event.op = "show_all" /\ matches = <<>>
     \/ SelectOk /\ matches = <<>>

\* C12: an empty result is no error: the table is empty with the cursor on
\* row 0 and the app keeps running in the matches view.
C12_EmptyResultIsValid ==
  EmptyResult =>
    /\ matches_table = [matches |-> <<>>, cursor_row |-> 0]
    /\ phase = "running"
    /\ error = ""
    /\ team_view_display

\* C12 witness: the played filter of a team none of whose matches is
\* finished.
C12_Witness ==
  /\ event.op = "filter_to_played"
  /\ current_view = "matches"
  /\ Len(matches) = MaxMatches
  /\ \A i \in 1..Len(matches) : ~finished(matches[i])
  /\ matches_table.matches = <<>>

\* C13: get_standings is requested once, by the constructor; a failure ends
\* the app before it runs; from then on the app's standings never change,
\* and while the app runs the standings table holds them row for row.
C13_StandingsFetchedOnce ==
  [][/\ standings_fetches' <= 1
     /\ phase # "new" => UNCHANGED <<standings, standings_fetches>>
     /\ (event'.op = "init" /\ event'.raised) => (phase' = "crashed" /\ standings' = <<>>)
     /\ (event'.op = "init" /\ ~event'.raised) => standings' \in Tables
     /\ phase' = "running" =>
          /\ standings_fetches' = 1
          /\ standings' \in Tables
          /\ Len(standings_table') = Len(standings')
          /\ \A i \in 1..Len(standings') : standings_table'[i] = standings'[i]]_vars

\* C13 witness: a select, a filter and a back later, the table still holds
\* the fetched rows, Liverpool first.
C13_Witness ==
  /\ phase = "running"
  /\ event.op = "show_standings"
  /\ standings_fetches = 1
  /\ standings = <<Standing(1, TeamB), Standing(2, TeamA)>>
  /\ standings_table = standings
  /\ DOMAIN cache = {TeamA, TeamB}
  /\ matches_table.matches # matches

ActiveTeam == (CHOOSE s \in Elements(standings) : s.team.name = name).team

\* The matches of full that the mode of a filter action keeps.
KeptBy(op, full) ==
  SelectSeq(full, LAMBDA m : \/ op = "show_all"
                             \/ op = "filter_to_played" /\ m.status = "FINISHED"
                             \/ op = "filter_to_unplayed" /\ m.status # "FINISHED")

\* C16: after a filter action, whatever filters came before it, the table
\* shows the matches that this filter alone keeps of the full list fetched
\* for the active team.
C16_FiltersDoNotCompound ==
  (event.op \in FilterOps /\ name # "") =>
    matches_table.matches = KeptBy(event.op, cache[ActiveTeam])

\* C16 witness: the unplayed filter shows both unplayed matches of a team
\* that also has a played one.
C16_Witness ==
  /\ event.op = "filter_to_unplayed"
  /\ current_view = "matches"
  /\ name = TeamA.name
  /\ Len(cache[TeamA]) = 3
  /\ finished(cache[TeamA][1]) /\ ~finished(cache[TeamA][2]) /\ ~finished(cache[TeamA][3])
  /\ matches_table.matches = <<cache[TeamA][2], cache[TeamA][3]>>

\* C17, as claimed: while the matches view is current, no event (filter,
\* cursor movement, selecting a row of the matches table) changes the
\* active team, its match list or the number of requests, or raises.
C17_MatchViewKeepsTeam ==
  [][current_view = "matches" =>
       (UNCHANGED <<name, matches, fetches>> /\ error' = "" /\ ~event'.raised)]_vars

\* C18: the team view's name and match list are either both unset or the
\* name and the cached list of one and the same standings row; a select
\* that raises changes neither.
C18_NameAndMatchesOfOneTeam ==
  [][/\ \/ name' = "" /\ matches' = <<>>
        \/ \E i \in 1..Len(standings') :
             /\ name' = standings'[i].team.name
             /\ standings'[i].team \in DOMAIN cache'
             /\ matches' = cache'[standings'[i].team]
     /\ (SelectOk' /\ event'.index < Len(standings)) =>
          /\ name' = standings[event'.index + 1].team.name
          /\ matches' = cache'[standings[event'.index + 1].team]
     /\ event'.raised => UNCHANGED <<name, matches>>]_vars

\* C18 witness: with Arsenal loaded, the select of Liverpool failed: name
\* and matches are still Arsenal's.
C18_Witness ==
  /\ SelectFetchFailed
  /\ SelectedTeam = TeamB
  /\ name = TeamA.name
  /\ matches = cache[TeamA] /\ matches # <<>>

====
